---- MODULE Spec2Model ----
(***************************************************************************)
(* Orbit navigation store (zustand `useOrbitStore`): the exploration       *)
(* session with its history, cursor, edge list, transient UI flags and     *)
(* prefetch cache, and the commands that act on it; and OrbitScreen, the   *)
(* component that drives the store from swipes, clicks, timers and the     *)
(* promises of the recommendation engine.                                  *)
(***************************************************************************)
EXTENDS Integers, Sequences, FiniteSets, TLC

VARIABLES
  store,        \* the state of useOrbitStore
  lastOp,       \* the last call made: its name, what it returned, isActive before it
  variant,      \* which of the two versions of OrbitScreen.handleSwipe is mounted
  swipeTimers,  \* OrbitCardStack's setTimeout(() => onSwipe(direction), 150), oldest first
  fetches,      \* getNextMovie calls awaited by handleSwipe
  frames,       \* commit callbacks handleSwipe has scheduled, oldest first
  fanouts,      \* prefetchNextMoves calls whose then-callback has not run
  card,         \* OrbitCardStack: isDragging and the long-press timer of the drag
  pinchState,   \* usePinchGesture's pinchState.current
  touches       \* the touch points on the screen's container, in the order they landed

screenVars == <<variant, swipeTimers, fetches, frames, fanouts, card, pinchState, touches>>

vars == <<store, lastOp, variant, swipeTimers, fetches, frames, fanouts, card, pinchState, touches>>

\* ---------------------------------------------------------------- bounds
\* Movies carry the ids 1..MaxMovieId.
MaxMovieId == 2
\* navigateTo is explored while the session holds fewer than MaxEdges edges.
MaxEdges == 2
\* The clock reads 0..MaxTime.
MaxTime == 0
\* Swipes of the screen under way at once: released drags whose timer, engine
\* call or commit callback is still to run.
MaxSwipes == 2
\* prefetchNextMoves calls in flight at once.
MaxFanouts == 2

\* ---------------------------------------------------------------- values
\* JavaScript null for object-typed fields, and for the direction field.
null == [isNull |-> TRUE]
noDirection == "null"

SwipeDirection == {"left", "right", "up", "down"}
ConnectionType == {"vibe", "aesthetic", "auteur", "entry"}
PrefetchKeys == {"vibe", "aesthetic", "auteur"}

\* OrbitCardStack between drags: isDragging false, no long-press timer in the
\* ref.  exceeded is bookkeeping of this model for the drag under way: whether
\* handleDrag has seen more than 20 px on an axis.  No code reads it.
cardAtRest ==
  [isDragging |-> FALSE, longPressTimer |-> null, exceeded |-> FALSE]

\* pinchState.current as useRef creates it and as handleTouchEnd leaves it.  The
\* scale is the quotient currentDistance / initialDistance, kept as a fraction.
notPinching ==
  [isPinching |-> FALSE, scale |-> [num |-> 1, den |-> 1], initialDistance |-> 0]

MovieIds == 1..MaxMovieId
OrbitMovie(i) == [id |-> i, mediaType |-> "movie"]
Movies == {OrbitMovie(i) : i \in MovieIds}

\* Date.now(): some reading of the clock, never earlier than a reading already
\* taken.
Times == 0..MaxTime
LaterTimes(state) ==
  {t \in Times : \A i \in DOMAIN state.history : state.history[i].timestamp <= t}

\* What the recommendation engine hands back for a film: the hydrated movie
\* with the reason and the score of the response it was parsed from.
ReasonOf(i) == IF i = 1 THEN "r1" ELSE IF i = 2 THEN "r2" ELSE "r3"
ScoreOf(i) == 60 + 10 * i
Candidate(i) ==
  [movie |-> OrbitMovie(i), connectionReason |-> ReasonOf(i), similarityScore |-> ScoreOf(i)]
Candidates == {Candidate(i) : i \in MovieIds}

OrbitNode(movie, timestamp, saved) ==
  [movie |-> movie, timestamp |-> timestamp, saved |-> saved]

OrbitEdge(fromId, toId, connectionType, connectionReason, similarityScore) ==
  [fromId |-> fromId, toId |-> toId, connectionType |-> connectionType,
   connectionReason |-> connectionReason, similarityScore |-> similarityScore]

\* ---------------------------------------------------------------- store
directionToConnectionType_swapped(direction) ==
  CASE direction = "left" -> "vibe"
    [] direction = "up" -> "aesthetic"
    [] direction = "down" -> "auteur"
    [] OTHER -> "vibe"

directionToConnectionType(direction) ==
  CASE direction = "left" -> "vibe"
    [] direction = "up" -> "auteur"
    [] direction = "down" -> "aesthetic"
    [] OTHER -> "vibe"

emptyPrefetch == [vibe |-> null, aesthetic |-> null, auteur |-> null]

initialState ==
  [isActive |-> FALSE,
   entryMovie |-> null,
   currentMovie |-> null,
   history |-> <<>>,
   historyIndex |-> -1,
   edges |-> <<>>,
   isTransitioning |-> FALSE,
   showConstellation |-> FALSE,
   pendingDirection |-> noDirection,
   prefetchedMoves |-> emptyPrefetch]

\* zustand set(partial): shallow merge of the given fields into the state.
Merge(state, partial) ==
  [k \in DOMAIN state |-> IF k \in DOMAIN partial THEN partial[k] ELSE state[k]]

\* Array.prototype.slice(0, end) for 0 <= end, on a 1-based sequence.
Slice0(seq, end) == SubSeq(seq, 1, IF end < Len(seq) THEN end ELSE Len(seq))

\* history[i] with the code's 0-based index; an index outside the array
\* reads `undefined`.
undefined == [isUndefined |-> TRUE]
At(seq, i) == IF i + 1 \in DOMAIN seq THEN seq[i + 1] ELSE undefined

\* The record of the last call on the store: which action, what it returned
\* (or threw), and whether the session was active when it was called.  The four
\* plain setters are recorded under the one name "set".  A call made on the
\* store directly leaves everything of the screen as it is.
Called(op, ret) == [op |-> op, ret |-> ret, wasActive |-> store.isActive]

\* ---------------------------------------------------------------- enterOrbit
enterOrbitPatch_keepsEdges(movie, timestamp) ==
  [isActive |-> TRUE,
   entryMovie |-> movie,
   currentMovie |-> movie,
   history |-> <<OrbitNode(movie, timestamp, FALSE)>>,
   historyIndex |-> 0,
   isTransitioning |-> FALSE,
   showConstellation |-> FALSE,
   prefetchedMoves |-> emptyPrefetch]

enterOrbitPatch(movie, timestamp) ==
  [isActive |-> TRUE,
   entryMovie |-> movie,
   currentMovie |-> movie,
   history |-> <<OrbitNode(movie, timestamp, FALSE)>>,
   historyIndex |-> 0,
   edges |-> <<>>,
   isTransitioning |-> FALSE,
   showConstellation |-> FALSE,
   prefetchedMoves |-> emptyPrefetch]

EnterOrbit(movie, timestamp) ==
  /\ store' = Merge(store, enterOrbitPatch(movie, timestamp))
  /\ lastOp' = Called("enterOrbit", "undefined")
  /\ UNCHANGED screenVars

\* ---------------------------------------------------------------- exitOrbit, reset
exitOrbitPatch_onlyDeactivates ==
  [isActive |-> FALSE, entryMovie |-> null, currentMovie |-> null]

exitOrbitPatch == initialState

ExitOrbit ==
  /\ store' = Merge(store, exitOrbitPatch)
  /\ lastOp' = Called("exitOrbit", "undefined")
  /\ UNCHANGED screenVars

Reset ==
  /\ store' = Merge(store, initialState)
  /\ lastOp' = Called("reset", "undefined")
  /\ UNCHANGED screenVars

\* ---------------------------------------------------------------- navigateTo
newHistory_noTruncate(state, node) == Append(state.history, node)

newHistory(state, node) ==
  Append(Slice0(state.history, state.historyIndex + 1), node)

navigateToPatch_edgeFromEntry(state, movie, direction, connectionReason, similarityScore, timestamp) ==
  LET node == OrbitNode(movie, timestamp, FALSE)
      edge == OrbitEdge(state.entryMovie.id, movie.id,
                        directionToConnectionType(direction),
                        connectionReason, similarityScore)
      newHist == newHistory(state, node)
  IN [currentMovie |-> movie,
      history |-> newHist,
      historyIndex |-> Len(newHist) - 1,
      edges |-> Append(state.edges, edge),
      isTransitioning |-> FALSE,
      pendingDirection |-> noDirection,
      prefetchedMoves |-> emptyPrefetch]

navigateToPatch_keepsPrefetch(state, movie, direction, connectionReason, similarityScore, timestamp) ==
  LET node == OrbitNode(movie, timestamp, FALSE)
      edge == OrbitEdge(state.currentMovie.id, movie.id,
                        directionToConnectionType(direction),
                        connectionReason, similarityScore)
      newHist == newHistory(state, node)
  IN [currentMovie |-> movie,
      history |-> newHist,
      historyIndex |-> Len(newHist) - 1,
      edges |-> Append(state.edges, edge),
      isTransitioning |-> FALSE,
      pendingDirection |-> noDirection]

navigateToPatch(state, movie, direction, connectionReason, similarityScore, timestamp) ==
  LET node == OrbitNode(movie, timestamp, FALSE)
      edge == OrbitEdge(state.currentMovie.id, movie.id,
                        directionToConnectionType(direction),
                        connectionReason, similarityScore)
      newHist == newHistory(state, node)
  IN [currentMovie |-> movie,
      history |-> newHist,
      historyIndex |-> Len(newHist) - 1,
      edges |-> Append(state.edges, edge),
      isTransitioning |-> FALSE,
      pendingDirection |-> noDirection,
      prefetchedMoves |-> emptyPrefetch]

\* The state navigateTo leaves behind when called on `state`.
navigateTo(state, movie, direction, connectionReason, similarityScore, timestamp) ==
  IF state.currentMovie = null
    THEN state
    ELSE Merge(state, navigateToPatch(state, movie, direction,
                                      connectionReason, similarityScore, timestamp))

NavigateTo(movie, direction, connectionReason, similarityScore, timestamp) ==
  /\ Len(store.edges) < MaxEdges \/ store.currentMovie = null
  /\ store' = navigateTo(store, movie, direction, connectionReason, similarityScore,
                         timestamp)
  /\ lastOp' = Called("navigateTo", "undefined")
  /\ UNCHANGED screenVars

\* ---------------------------------------------------------------- goBack
goBackAtEdge_offByOne(state) == state.historyIndex < 0

goBackAtEdge(state) == state.historyIndex <= 0

goBackPatch_keepsPending(state, previousNode) ==
  [currentMovie |-> previousNode.movie,
   historyIndex |-> state.historyIndex - 1,
   isTransitioning |-> FALSE]

goBackPatch_truncates(state, previousNode) ==
  [currentMovie |-> previousNode.movie,
   history |-> Slice0(state.history, state.historyIndex),
   historyIndex |-> state.historyIndex - 1,
   isTransitioning |-> FALSE,
   pendingDirection |-> noDirection]

goBackPatch(state, previousNode) ==
  [currentMovie |-> previousNode.movie,
   historyIndex |-> state.historyIndex - 1,
   isTransitioning |-> FALSE,
   pendingDirection |-> noDirection]

\* The state goBack leaves behind when called on `state`, and what it returns.
goBack(state) ==
  LET previousNode == At(state.history, state.historyIndex - 1)
  IN IF goBackAtEdge(state)
       THEN [state |-> state, ret |-> "false"]
       ELSE IF previousNode = undefined
         THEN \* reading .movie of undefined throws before set() is reached
              [state |-> state, ret |-> "TypeError"]
         ELSE [state |-> Merge(state, goBackPatch(state, previousNode)), ret |-> "true"]

GoBack ==
  /\ store' = goBack(store).state
  /\ lastOp' = Called("goBack", goBack(store).ret)
  /\ UNCHANGED screenVars

\* ---------------------------------------------------------------- jumpToNode
jumpToNodePatch_clearsEdges(node, index) ==
  [currentMovie |-> node.movie,
   historyIndex |-> index,
   edges |-> <<>>,
   showConstellation |-> FALSE,
   isTransitioning |-> FALSE]

jumpToNodePatch_keepsMovie(node, index) ==
  [historyIndex |-> index,
   showConstellation |-> FALSE,
   isTransitioning |-> FALSE]

jumpToNodePatch(node, index) ==
  [currentMovie |-> node.movie,
   historyIndex |-> index,
   showConstellation |-> FALSE,
   isTransitioning |-> FALSE]

jumpOutOfRange(state, index) == index < 0 \/ index >= Len(state.history)

\* The state jumpToNode leaves behind when called on `state`, and what it
\* returns.
jumpToNode(state, index) ==
  LET node == At(state.history, index)
  IN IF jumpOutOfRange(state, index)
       THEN [state |-> state, ret |-> "undefined"]
       ELSE IF node = undefined
         THEN \* reading .movie of undefined throws before set() is reached
              [state |-> state, ret |-> "TypeError"]
         ELSE [state |-> Merge(state, jumpToNodePatch(node, index)), ret |-> "undefined"]

JumpToNode(index) ==
  /\ store' = jumpToNode(store, index).state
  /\ lastOp' = Called("jumpToNode", jumpToNode(store, index).ret)
  /\ UNCHANGED screenVars

\* ---------------------------------------------------------------- toggleSaved
toggleNode_marksSaved(node, movieId) ==
  IF node.movie.id = movieId
    THEN [node EXCEPT !.saved = TRUE]
    ELSE node

toggleNode(node, movieId) ==
  IF node.movie.id = movieId
    THEN [node EXCEPT !.saved = ~node.saved]
    ELSE node

ToggleSaved(movieId) ==
  /\ store' = Merge(store,
        [history |-> [i \in DOMAIN store.history |-> toggleNode(store.history[i], movieId)]])
  /\ lastOp' = Called("toggleSaved", "undefined")
  /\ UNCHANGED screenVars

\* ---------------------------------------------------------------- UI setters
\* The state each setter leaves behind when called on `state`.
setTransitioning(state, value) == Merge(state, [isTransitioning |-> value])
setShowConstellation(state, value) == Merge(state, [showConstellation |-> value])
setPendingDirection(state, direction) == Merge(state, [pendingDirection |-> direction])
\* moves is a Partial of the three slots: a function on a subset of the keys.
setPrefetchedMoves(state, moves) ==
  Merge(state, [prefetchedMoves |-> Merge(state.prefetchedMoves, moves)])

SetTransitioning(value) ==
  /\ store' = setTransitioning(store, value)
  /\ lastOp' = Called("set", "undefined")
  /\ UNCHANGED screenVars

SetShowConstellation(value) ==
  /\ store' = setShowConstellation(store, value)
  /\ lastOp' = Called("set", "undefined")
  /\ UNCHANGED screenVars

SetPendingDirection(direction) ==
  /\ store' = setPendingDirection(store, direction)
  /\ lastOp' = Called("set", "undefined")
  /\ UNCHANGED screenVars

SetPrefetchedMoves(moves) ==
  /\ store' = setPrefetchedMoves(store, moves)
  /\ lastOp' = Called("set", "undefined")
  /\ UNCHANGED screenVars

\* ---------------------------------------------------------------- getSavedMovies
IsSaved(node) == node.saved
getSavedMovies(state) == SelectSeq(state.history, IsSaved)

\* ---------------------------------------------------------------- specification
\* Results of prefetchNextMoves, each slot a candidate or null: nothing found,
\* or two of the three slots found.
NextId(i) == IF i = MaxMovieId THEN 1 ELSE i + 1
PrefetchResults ==
  {emptyPrefetch}
  \cup {[vibe |-> Candidate(i), aesthetic |-> null, auteur |-> Candidate(NextId(i))] :
          i \in MovieIds}

\* Arguments the screen passes to setPendingDirection.
PendingDirections == {"left", noDirection}

JumpIndices == -1..(MaxEdges + 1)

\* No OrbitScreen is mounted: nothing of the screen is scheduled or in flight.
noScreen ==
  /\ variant = "none"
  /\ swipeTimers = <<>>
  /\ fetches = <<>>
  /\ frames = <<>>
  /\ fanouts = <<>>
  /\ card = cardAtRest
  /\ pinchState = notPinching
  /\ touches = <<>>

Init ==
  /\ store = initialState
  /\ lastOp = [op |-> "create", ret |-> "undefined", wasActive |-> FALSE]
  /\ noScreen

\* The store under any caller: each step is one call of one action of the store.
Next ==
  \/ \E c \in Candidates, t \in Times : EnterOrbit(c.movie, t)
  \/ ExitOrbit
  \/ Reset
  \/ \E c \in Candidates, d \in SwipeDirection, t \in LaterTimes(store) :
        NavigateTo(c.movie, d, c.connectionReason, c.similarityScore, t)
  \/ GoBack
  \/ \E index \in JumpIndices : JumpToNode(index)
  \/ \E movieId \in MovieIds : ToggleSaved(movieId)
  \/ \E value \in BOOLEAN : SetTransitioning(value)
  \/ \E value \in BOOLEAN : SetShowConstellation(value)
  \/ \E d \in PendingDirections : SetPendingDirection(d)
  \/ \E moves \in PrefetchResults : SetPrefetchedMoves(moves)

Spec == Init /\ [][Next]_vars

\* ---------------------------------------------------------------- recommendation engine
\* A candidate as getNextMovie returns it.  requestedFor is bookkeeping of this
\* model: the id of the movie the engine was asked about.  No code reads it.
Requested(candidate, movieId) ==
  [movie |-> candidate.movie,
   connectionReason |-> candidate.connectionReason,
   similarityScore |-> candidate.similarityScore,
   requestedFor |-> movieId]

\* The films the engine may name when asked about a film.
RecommendedIds(movieId) == {NextId(movieId)}

\* getNextMovie(currentMovie, direction): null for 'right', for no response,
\* for a response that does not parse and for a film TMDB does not know; else
\* the hydrated film with the reason and score of the response.
getNextMovie(currentMovie, direction) ==
  IF direction = "right"
    THEN {null}
    ELSE {null} \cup {Requested(Candidate(i), currentMovie.id) :
                        i \in RecommendedIds(currentMovie.id)}

\* prefetchNextMoves asks for 'left', 'down' and 'up' and names the answers
\* vibe, aesthetic and auteur.
prefetchDirection(key) ==
  CASE key = "vibe" -> "left"
    [] key = "aesthetic" -> "down"
    [] key = "auteur" -> "up"

\* A request that has not resolved.
pending == [isPending |-> TRUE]

\* prefetchNextMoves(movie) as issued: its three getNextMovie calls in flight.
prefetchNextMoves(movie) ==
  [movie |-> movie, results |-> [k \in PrefetchKeys |-> pending]]

\* What Promise.all may resolve to for a fan-out: each request's result where it
\* has resolved, any result the engine may give where it has not.
prefetchOutcomes(fanout) ==
  {moves \in [PrefetchKeys -> {null} \cup UNION {getNextMovie(fanout.movie, prefetchDirection(k)) :
                                                  k \in PrefetchKeys}] :
     \A k \in PrefetchKeys :
       IF fanout.results[k] = pending
         THEN moves[k] \in getNextMovie(fanout.movie, prefetchDirection(k))
         ELSE moves[k] = fanout.results[k]}

\* ---------------------------------------------------------------- OrbitScreen
Remove(seq, i) == SubSeq(seq, 1, i - 1) \o SubSeq(seq, i + 1, Len(seq))

\* The slot of the cache handleSwipe reads for a direction.
prefetchKey(direction) ==
  IF direction = "left" THEN "vibe"
  ELSE IF direction = "down" THEN "aesthetic"
  ELSE "auteur"

\* Swipes under way, and those of them that will call navigateTo.
SwipesUnderWay == Len(swipeTimers) + Len(fetches) + Len(frames)
ForwardUnderWay ==
  Cardinality({i \in DOMAIN swipeTimers : swipeTimers[i].direction # "right"})
    + Len(fetches) + Len(frames)

\* The screen's record of the handler that ran last.
Ran(handler, ret) == [op |-> handler, ret |-> ret, wasActive |-> store.isActive]

\* initOrbit from the point the film's details have been fetched: enterOrbit,
\* then the prefetch for the entry film.
InitOrbit(movie, timestamp) ==
  /\ Len(fanouts) + ForwardUnderWay < MaxFanouts
  /\ store' = Merge(store, enterOrbitPatch(movie, timestamp))
  /\ fanouts' = Append(fanouts, prefetchNextMoves(movie))
  /\ lastOp' = Ran("initOrbit", "undefined")
  /\ UNCHANGED <<variant, swipeTimers, fetches, frames, card, pinchState, touches>>

\* OrbitCardStack.handleDragEnd for a drag past the threshold.  The card is
\* rendered while there is a current movie and the constellation is hidden,
\* and is draggable while isTransitioning is false.  The timer keeps the
\* onSwipe of this render: handleSwipe closed over this render's currentMovie,
\* isTransitioning and prefetchedMoves (of which it reads one slot).
handleDragEnd(direction) ==
  /\ store.currentMovie # null
  /\ ~store.showConstellation
  /\ ~store.isTransitioning
  /\ SwipesUnderWay < MaxSwipes
  /\ direction # "right" =>
       /\ Len(store.edges) + ForwardUnderWay < MaxEdges
       /\ Len(fanouts) + ForwardUnderWay < MaxFanouts
  /\ swipeTimers' = Append(swipeTimers,
        [direction |-> direction,
         currentMovie |-> store.currentMovie,
         isTransitioning |-> store.isTransitioning,
         prefetched |-> IF direction = "right"
                          THEN null
                          ELSE store.prefetchedMoves[prefetchKey(direction)]])
  /\ lastOp' = Ran("handleDragEnd", "undefined")
  /\ UNCHANGED <<store, variant, fetches, frames, fanouts, card, pinchState, touches>>

\* handleSwipe up to its first await or scheduled callback, run by the oldest
\* timer.  The guard and the cache slot are the closure's; goBack and the
\* setters act on the store as it is now.
swipeAccepted(state, direction) ==
  setPendingDirection(setTransitioning(state, TRUE), direction)

handleSwipe ==
  /\ swipeTimers # <<>>
  /\ LET closure == Head(swipeTimers)
         direction == closure.direction
     IN /\ swipeTimers' = Tail(swipeTimers)
        /\ IF closure.currentMovie = null \/ closure.isTransitioning
             THEN /\ lastOp' = Ran("handleSwipe", "ignored")
                  /\ UNCHANGED <<store, fetches, frames>>
           ELSE IF direction = "right"
             THEN /\ store' = goBack(store).state
                  /\ lastOp' = Ran("handleSwipe", goBack(store).ret)
                  /\ UNCHANGED <<fetches, frames>>
           ELSE IF closure.prefetched # null
             THEN /\ store' = swipeAccepted(store, direction)
                  /\ frames' = Append(frames, [candidate |-> closure.prefetched,
                                               direction |-> direction,
                                               source |-> "prefetched"])
                  /\ lastOp' = Ran("handleSwipe", "prefetched")
                  /\ UNCHANGED fetches
           ELSE /\ store' = swipeAccepted(store, direction)
                /\ fetches' = Append(fetches, [movie |-> closure.currentMovie,
                                               direction |-> direction])
                /\ lastOp' = Ran("handleSwipe", "awaiting")
                /\ UNCHANGED frames
  /\ UNCHANGED <<variant, fanouts, card, pinchState, touches>>

\* handleSwipe from `await getNextMovie(...)` on: a result schedules the commit,
\* null ends the swipe.
swipeFailed_goesBack(state) ==
  setPendingDirection(setTransitioning(goBack(state).state, FALSE), noDirection)

swipeFailed(state) ==
  setPendingDirection(setTransitioning(state, FALSE), noDirection)

getNextMovieReturns(i, result) ==
  /\ i \in DOMAIN fetches
  /\ result \in getNextMovie(fetches[i].movie, fetches[i].direction)
  /\ fetches' = Remove(fetches, i)
  /\ IF result # null
       THEN /\ frames' = Append(frames, [candidate |-> result,
                                         direction |-> fetches[i].direction,
                                         source |-> "result"])
            /\ lastOp' = Ran("getNextMovieReturns", "result")
            /\ UNCHANGED store
       ELSE /\ store' = swipeFailed(store)
            /\ lastOp' = Ran("getNextMovieReturns", "null")
            /\ UNCHANGED frames
  /\ UNCHANGED <<variant, swipeTimers, fanouts, card, pinchState, touches>>

\* The commit callback (requestAnimationFrame in part_012, setTimeout 300 in
\* OrbitScreen.tsx): navigateTo, in part_012 the two setters after it, then the
\* prefetch for the film navigated to.
commitFlags(state) ==
  IF variant = "part_012"
    THEN setPendingDirection(setTransitioning(state, FALSE), noDirection)
    ELSE state

commitPrefetch(before, movie) == Append(fanouts, prefetchNextMoves(movie))

commit ==
  /\ frames # <<>>
  /\ LET frame == Head(frames)
         c == frame.candidate
     IN /\ frames' = Tail(frames)
        /\ \E timestamp \in LaterTimes(store) :
             store' = commitFlags(navigateTo(store, c.movie, frame.direction,
                                             c.connectionReason, c.similarityScore,
                                             timestamp))
        /\ fanouts' = commitPrefetch(store, c.movie)
        /\ lastOp' = Ran("commit", frame.source)
  /\ UNCHANGED <<variant, swipeTimers, fetches, card, pinchState, touches>>

\* One getNextMovie of a fan-out resolves.
requestResolves(i, key, result) ==
  /\ i \in DOMAIN fanouts
  /\ fanouts[i].results[key] = pending
  /\ result \in getNextMovie(fanouts[i].movie, prefetchDirection(key))
  /\ fanouts' = [fanouts EXCEPT ![i].results[key] = result]
  /\ lastOp' = Ran("requestResolves", IF result = null THEN "null" ELSE "result")
  /\ UNCHANGED <<store, variant, swipeTimers, fetches, frames, card, pinchState, touches>>

\* Promise.all of a fan-out resolves to `moves` and the then-callback writes the
\* three slots in one setPrefetchedMoves.
prefetchedMovesOf_keepsHeld(state, moves) ==
  [k \in PrefetchKeys |-> IF moves[k] = null THEN state.prefetchedMoves[k] ELSE moves[k]]

prefetchedMovesOf(state, moves) ==
  [vibe |-> moves.vibe, aesthetic |-> moves.aesthetic, auteur |-> moves.auteur]

prefetchSettles(i, moves) ==
  /\ i \in DOMAIN fanouts
  /\ moves \in prefetchOutcomes(fanouts[i])
  /\ store' = setPrefetchedMoves(store, prefetchedMovesOf(store, moves))
  /\ fanouts' = Remove(fanouts, i)
  /\ lastOp' = Ran("prefetchSettles", "undefined")
  /\ UNCHANGED <<variant, swipeTimers, fetches, frames, card, pinchState, touches>>

\* A click on a node of the constellation, which shows one node per entry of
\* the history.
handleNodeClick(index) ==
  /\ store.isActive
  /\ store.showConstellation
  /\ index \in 0..(Len(store.history) - 1)
  /\ store' = jumpToNode(store, index).state
  /\ lastOp' = Ran("handleNodeClick", jumpToNode(store, index).ret)
  /\ UNCHANGED screenVars

\* The constellation button of the controls, shown once the screen has loaded.
handleToggleConstellation ==
  /\ store.isActive
  /\ store' = setShowConstellation(store, ~store.showConstellation)
  /\ lastOp' = Ran("handleToggleConstellation", "undefined")
  /\ UNCHANGED screenVars

\* The exit button: exitOrbit, then the route is left.  Timers and promises of
\* the screen are not cancelled.
handleExit ==
  /\ store.isActive
  /\ store' = Merge(store, exitOrbitPatch)
  /\ lastOp' = Ran("handleExit", "undefined")
  /\ UNCHANGED screenVars

\* The screen of `version` before its first mount.
unmounted(version) ==
  /\ store = initialState
  /\ lastOp = [op |-> "create", ret |-> "undefined", wasActive |-> FALSE]
  /\ variant = version
  /\ swipeTimers = <<>>
  /\ fetches = <<>>
  /\ frames = <<>>
  /\ fanouts = <<>>
  /\ card = cardAtRest
  /\ pinchState = notPinching
  /\ touches = <<>>

InitScreen == unmounted("part_012")

InitScreenTimeout == unmounted("OrbitScreen.tsx")

\* The swipes tried on the card: two of the three forward directions, and back.
SwipesTried == {"left", "up", "right"}

\* The user's moves on the screen.
UserNext ==
  \/ \E movie \in Movies, t \in Times : InitOrbit(movie, t)
  \/ \E direction \in SwipesTried : handleDragEnd(direction)
  \/ \E index \in JumpIndices : handleNodeClick(index)
  \/ handleToggleConstellation
  \/ handleExit

\* An awaited getNextMovie returns; a fan-out settles, all at once.
someCallReturns ==
  \E i \in DOMAIN fetches :
    \E result \in getNextMovie(fetches[i].movie, fetches[i].direction) :
      getNextMovieReturns(i, result)

somePrefetchSettles ==
  \E i \in DOMAIN fanouts :
    \E moves \in prefetchOutcomes(fanouts[i]) : prefetchSettles(i, moves)

\* The screen with each fan-out settling in one step.
NextScreen ==
  \/ UserNext
  \/ handleSwipe
  \/ someCallReturns
  \/ commit
  \/ somePrefetchSettles

\* OrbitScreen as in part_012, which commits in requestAnimationFrame.
SpecScreen == InitScreen /\ [][NextScreen]_vars

\* OrbitScreen as in OrbitScreen.tsx, which commits in setTimeout(..., 300).
SpecScreenTimeout == InitScreenTimeout /\ [][NextScreen]_vars

\* OrbitScreen.tsx where every timer fires, every scheduled callback runs and
\* every call of the engine returns; the user owes the screen nothing.
FairScreenTimeout ==
  /\ SpecScreenTimeout
  /\ WF_vars(handleSwipe)
  /\ WF_vars(someCallReturns)
  /\ WF_vars(commit)
  /\ WF_vars(somePrefetchSettles)

\* The prefetch alone, request by request: the screen is entered and left, each
\* getNextMovie of a fan-out resolves on its own, and the then-callback runs
\* once all three have.
NextPrefetch ==
  \/ \E movie \in Movies, t \in Times : InitOrbit(movie, t)
  \/ handleToggleConstellation
  \/ handleExit
  \/ \E i \in DOMAIN fanouts, key \in PrefetchKeys :
        \E result \in getNextMovie(fanouts[i].movie, prefetchDirection(key)) :
          requestResolves(i, key, result)
  \/ \E i \in DOMAIN fanouts :
        /\ \A key \in PrefetchKeys : fanouts[i].results[key] # pending
        /\ prefetchSettles(i, fanouts[i].results)

SpecPrefetch == InitScreen /\ [][NextPrefetch]_vars
\* ---------------------------------------------------------------- OrbitCardStack gestures
\* SWIPE_THRESHOLD = 0.3 as a fraction.  A viewport's sides and the offsets
\* of a drag are whole pixels here, and for whole numbers the comparison of an
\* offset with the double Math.min(w, h) * 0.3 comes out as the comparison of
\* offset * 10 with min(w, h) * 3.
SWIPE_THRESHOLD == [num |-> 3, den |-> 10]
LONG_PRESS_DURATION == 500
LongPressSlop == 20

Abs(n) == IF n < 0 THEN -n ELSE n
Min(a, b) == IF a < b THEN a ELSE b

\* window.innerWidth and window.innerHeight at the time of a call.
Viewports ==
  {[innerWidth |-> 100, innerHeight |-> 200],
   [innerWidth |-> 200, innerHeight |-> 100],
   [innerWidth |-> 50, innerHeight |-> 50]}

\* info.offset.x and info.offset.y of a drag.
Offsets == {-40, -30, -21, -15, 0, 15, 20, 21, 30, 40}

getSwipeDirection_atThreshold(offsetX, offsetY, window) ==
  LET m == Min(window.innerWidth, window.innerHeight)
      below(v) == v * SWIPE_THRESHOLD.den <= -(m * SWIPE_THRESHOLD.num)
      above(v) == v * SWIPE_THRESHOLD.den >= m * SWIPE_THRESHOLD.num
  IN IF Abs(offsetX) > Abs(offsetY)
       THEN IF below(offsetX) THEN "left"
            ELSE IF above(offsetX) THEN "right"
            ELSE noDirection
       ELSE IF below(offsetY) THEN "up"
            ELSE IF above(offsetY) THEN "down"
            ELSE noDirection

getSwipeDirection_horizontalTies(offsetX, offsetY, window) ==
  LET m == Min(window.innerWidth, window.innerHeight)
      below(v) == v * SWIPE_THRESHOLD.den < -(m * SWIPE_THRESHOLD.num)
      above(v) == v * SWIPE_THRESHOLD.den > m * SWIPE_THRESHOLD.num
  IN IF Abs(offsetX) >= Abs(offsetY)
       THEN IF below(offsetX) THEN "left"
            ELSE IF above(offsetX) THEN "right"
            ELSE noDirection
       ELSE IF below(offsetY) THEN "up"
            ELSE IF above(offsetY) THEN "down"
            ELSE noDirection

getSwipeDirection(offsetX, offsetY, window) ==
  LET m == Min(window.innerWidth, window.innerHeight)
      below(v) == v * SWIPE_THRESHOLD.den < -(m * SWIPE_THRESHOLD.num)
      above(v) == v * SWIPE_THRESHOLD.den > m * SWIPE_THRESHOLD.num
  IN IF Abs(offsetX) > Abs(offsetY)
       THEN IF below(offsetX) THEN "left"
            ELSE IF above(offsetX) THEN "right"
            ELSE noDirection
       ELSE IF below(offsetY) THEN "up"
            ELSE IF above(offsetY) THEN "down"
            ELSE noDirection

\* The card is rendered while there is a current movie and the constellation
\* is hidden; showing the constellation unmounts it, which clears the timer
\* and drops its state.
cardRendered(state) == state.currentMovie # null /\ ~state.showConstellation

\* handleDragStart.  The timer's callback is the one of the render the drag
\* started in: it reads that render's isDragging and calls that render's
\* onLongPress, which closed over that render's currentMovie.
handleDragStart ==
  /\ cardRendered(store)
  /\ ~store.isTransitioning
  /\ ~card.isDragging
  /\ card' = [isDragging |-> TRUE,
              longPressTimer |-> [delay |-> LONG_PRESS_DURATION,
                                  pending |-> TRUE,
                                  isDragging |-> card.isDragging,
                                  currentMovie |-> store.currentMovie],
              exceeded |-> FALSE]
  /\ lastOp' = Ran("handleDragStart", "undefined")
  /\ UNCHANGED <<store, variant, swipeTimers, fetches, frames, fanouts, pinchState, touches>>

\* handleDrag: the timer is cleared once an axis is more than 20 px out.  The
\* swipe hint it sets is only drawn.
movedTooFar(offsetX, offsetY) ==
  Abs(offsetX) > LongPressSlop \/ Abs(offsetY) > LongPressSlop

handleDrag(offsetX, offsetY) ==
  /\ card.isDragging
  /\ card' = [card EXCEPT
                !.longPressTimer = IF movedTooFar(offsetX, offsetY) THEN null ELSE @,
                !.exceeded = @ \/ movedTooFar(offsetX, offsetY)]
  /\ lastOp' = Ran("handleDrag", IF movedTooFar(offsetX, offsetY) THEN "cleared" ELSE "kept")
  /\ UNCHANGED <<store, variant, swipeTimers, fetches, frames, fanouts, pinchState, touches>>

\* OrbitScreen.handleLongPress as the render of `currentMovie` made it.
handleLongPress(state, currentMovie) ==
  IF currentMovie # null
    THEN Merge(state,
           [history |-> [i \in DOMAIN state.history |->
                           toggleNode(state.history[i], currentMovie.id)]])
    ELSE state

\* The long-press timer fires, LONG_PRESS_DURATION after the drag started, and
\* its callback tests the isDragging it closed over.  The id stays in the ref.
longPressFires(timer) == timer.isDragging

longPressTimer ==
  /\ card.longPressTimer # null
  /\ card.longPressTimer.pending
  /\ LET timer == card.longPressTimer
     IN IF longPressFires(timer)
          THEN /\ store' = handleLongPress(store, timer.currentMovie)
               /\ card' = [card EXCEPT !.longPressTimer.pending = FALSE]
               /\ lastOp' = Ran("longPressTimer", "onLongPress")
          ELSE /\ card' = [card EXCEPT !.longPressTimer.pending = FALSE]
               /\ lastOp' = Ran("longPressTimer", "skipped")
               /\ UNCHANGED store
  /\ UNCHANGED <<variant, swipeTimers, fetches, frames, fanouts, pinchState, touches>>

\* What the card records of a release: the offset and the viewport it was
\* classified with, and what came of it.
Released(offsetX, offsetY, window, ret) ==
  [op |-> "onDragEnd", ret |-> ret, wasActive |-> store.isActive,
   offset |-> [x |-> offsetX, y |-> offsetY], window |-> window]

\* handleDragEnd with the offset of the release: the timer is cleared, and a
\* direction other than null is handed to onSwipe 150 ms later unless the
\* render's isTransitioning is true; otherwise the card springs back.
onDragEnd(offsetX, offsetY, window) ==
  /\ card.isDragging
  /\ LET direction == getSwipeDirection(offsetX, offsetY, window)
     IN /\ (direction # noDirection /\ ~store.isTransitioning) =>
              /\ SwipesUnderWay < MaxSwipes
              /\ direction # "right" =>
                   /\ Len(store.edges) + ForwardUnderWay < MaxEdges
                   /\ Len(fanouts) + ForwardUnderWay < MaxFanouts
        /\ card' = cardAtRest
        /\ IF direction # noDirection /\ ~store.isTransitioning
             THEN /\ swipeTimers' = Append(swipeTimers,
                        [direction |-> direction,
                         currentMovie |-> store.currentMovie,
                         isTransitioning |-> store.isTransitioning,
                         prefetched |-> IF direction = "right"
                                          THEN null
                                          ELSE store.prefetchedMoves[prefetchKey(direction)]])
                  /\ lastOp' = Released(offsetX, offsetY, window, direction)
             ELSE /\ lastOp' = Released(offsetX, offsetY, window, "springBack")
                  /\ UNCHANGED swipeTimers
  /\ UNCHANGED <<store, variant, fetches, frames, fanouts, pinchState, touches>>
\* ---------------------------------------------------------------- usePinchGesture
\* The threshold OrbitScreen passes, 0.25, as a fraction.
threshold == [num |-> 25, den |-> 100]

\* The pinch listeners are attached, and the handlers go past their first
\* test, while the screen has loaded and no transition is under way.
enabled(state) == state.isActive /\ ~state.isTransitioning

\* Where a finger may be: the first to land at the origin, a second one 3, 4
\* or 5 px from it.
Origin == [clientX |-> 0, clientY |-> 0]
Points ==
  {Origin,
   [clientX |-> 0, clientY |-> 3],
   [clientX |-> 4, clientY |-> 0],
   [clientX |-> 3, clientY |-> 4]}
MaxTouches == 2

Sqrt(n) == CHOOSE r \in 0..n : r * r = n

getDistance(touchList) ==
  IF Len(touchList) < 2
    THEN 0
    ELSE LET dx == touchList[1].clientX - touchList[2].clientX
             dy == touchList[1].clientY - touchList[2].clientY
         IN Sqrt(dx * dx + dy * dy)

\* Math.abs(1 - scale) >= threshold and scale < 1, for a scale num / den
\* with den positive.
significant(scale) ==
  Abs(scale.den - scale.num) * threshold.den >= threshold.num * scale.den

lessThanOne(scale) == scale.num < scale.den

\* touchstart: a finger lands.  The hook's isPinching state is set along with
\* pinchState.current.isPinching and is read by nobody.
handleTouchStart(point) ==
  /\ store.isActive
  /\ Len(touches) < MaxTouches
  /\ touches = <<>> <=> point = Origin
  /\ touches' = Append(touches, point)
  /\ IF enabled(store) /\ Len(touches') = 2
       THEN /\ pinchState' = [isPinching |-> TRUE,
                              scale |-> [num |-> 1, den |-> 1],
                              initialDistance |-> getDistance(touches')]
            /\ lastOp' = Ran("handleTouchStart", "pinching")
       ELSE /\ lastOp' = Ran("handleTouchStart", "ignored")
            /\ UNCHANGED pinchState
  /\ UNCHANGED <<store, variant, swipeTimers, fetches, frames, fanouts, card>>

\* touchmove: the second finger moves.
handleTouchMove(point) ==
  /\ store.isActive
  /\ Len(touches) = 2
  /\ point # Origin
  /\ point # touches[2]
  /\ touches' = [touches EXCEPT ![2] = point]
  /\ IF enabled(store) /\ pinchState.isPinching /\ Len(touches') = 2
       THEN /\ pinchState' = [pinchState EXCEPT
                                !.scale = [num |-> getDistance(touches'),
                                           den |-> pinchState.initialDistance]]
            /\ lastOp' = Ran("handleTouchMove", "scaled")
       ELSE /\ lastOp' = Ran("handleTouchMove", "ignored")
            /\ UNCHANGED pinchState
  /\ UNCHANGED <<store, variant, swipeTimers, fetches, frames, fanouts, card>>

\* OrbitScreen's onPinchIn and onPinchOut.
onPinchIn(state) ==
  IF ~state.showConstellation THEN setShowConstellation(state, TRUE) ELSE state

onPinchOut(state) ==
  IF state.showConstellation THEN setShowConstellation(state, FALSE) ELSE state

\* touchend or touchcancel: the finger that landed last lifts.
handleTouchEnd ==
  /\ store.isActive
  /\ touches # <<>>
  /\ touches' = SubSeq(touches, 1, Len(touches) - 1)
  /\ IF enabled(store) /\ pinchState.isPinching
       THEN LET finalScale == pinchState.scale
            IN /\ pinchState' = notPinching
               /\ IF significant(finalScale)
                    THEN IF lessThanOne(finalScale)
                           THEN /\ store' = onPinchIn(store)
                                /\ lastOp' = Ran("handleTouchEnd", "onPinchIn")
                           ELSE /\ store' = onPinchOut(store)
                                /\ lastOp' = Ran("handleTouchEnd", "onPinchOut")
                    ELSE /\ lastOp' = Ran("handleTouchEnd", "none")
                         /\ UNCHANGED store
       ELSE /\ lastOp' = Ran("handleTouchEnd", "ignored")
            /\ UNCHANGED <<store, pinchState>>
  /\ card' = IF cardRendered(store') THEN card ELSE cardAtRest
  /\ UNCHANGED <<variant, swipeTimers, fetches, frames, fanouts>>
\* ---------------------------------------------------------------- the screen under gestures
\* Drags of the card.
DragNext ==
  \/ handleDragStart
  \/ \E offsetX \in Offsets, offsetY \in Offsets : handleDrag(offsetX, offsetY)
  \/ longPressTimer
  \/ \E offsetX \in Offsets, offsetY \in Offsets, window \in Viewports :
        onDragEnd(offsetX, offsetY, window)

\* Touches on the container.
TouchNext ==
  \/ \E point \in Points : handleTouchStart(point)
  \/ \E point \in Points : handleTouchMove(point)
  \/ handleTouchEnd

\* The screen under drags of the card, from press to release.  The answers to
\* the prefetch stay outstanding, so every forward swipe asks the engine.
NextDrag ==
  \/ \E movie \in Movies, t \in Times : InitOrbit(movie, t)
  \/ DragNext
  \/ handleSwipe
  \/ someCallReturns
  \/ commit

SpecDrag == InitScreen /\ [][NextDrag]_vars

\* The screen under touches of its container, with swipes of the card released
\* past the threshold.  The answers to the prefetch stay outstanding.
NextPinch ==
  \/ \E movie \in Movies, t \in Times : InitOrbit(movie, t)
  \/ \E direction \in SwipesTried : handleDragEnd(direction)
  \/ TouchNext
  \/ handleSwipe
  \/ someCallReturns
  \/ commit

SpecPinch == InitScreen /\ [][NextPinch]_vars
\* ---------------------------------------------------------------- properties
ForwardDirections == {"left", "up", "down"}

\* The ids of the movies of the nodes of a history.
HistoryIds(history) == {history[i].movie.id : i \in DOMAIN history}

\* C1: whenever the session is active, history is non-empty, the cursor
\* historyIndex lies within it, and the node under the cursor holds the
\* current movie (same id).
C1_CursorInvariant ==
  store.isActive =>
    /\ store.history # <<>>
    /\ 0 <= store.historyIndex
    /\ store.historyIndex < Len(store.history)
    /\ store.currentMovie # null
    /\ At(store.history, store.historyIndex).movie.id = store.currentMovie.id

\* An active session whose cursor is behind the end of a history that holds a
\* saved node, with a populated prefetch cache and a pending direction.
C1_Witness ==
  /\ store.isActive
  /\ Len(store.history) = 3
  /\ store.historyIndex = 1
  /\ \E i \in DOMAIN store.history : store.history[i].saved
  /\ store.prefetchedMoves.vibe # null
  /\ store.pendingDirection = "left"

\* C2: a navigateTo call on a session with a current movie, in a forward
\* direction, appends exactly one edge to the end of edges -- from the movie
\* that was current, to the new movie, typed left->vibe, up->auteur,
\* down->aesthetic, carrying the reason and the score -- and keeps the earlier
\* edges as they were, whatever it truncates from history.
C2_EdgeAppended ==
  [][\A c \in Candidates, d \in ForwardDirections :
       ( /\ lastOp'.op = "navigateTo"
         /\ store.currentMovie # null
         /\ \E t \in Times :
              NavigateTo(c.movie, d, c.connectionReason, c.similarityScore, t) )
       => store'.edges =
            Append(store.edges,
                   [fromId |-> store.currentMovie.id,
                    toId |-> c.movie.id,
                    connectionType |-> IF d = "left" THEN "vibe"
                                       ELSE IF d = "up" THEN "auteur"
                                       ELSE "aesthetic",
                    connectionReason |-> c.connectionReason,
                    similarityScore |-> c.similarityScore])
  ]_vars

\* Enter A, navigate to B, go back, navigate up: history is two nodes long, the
\* first edge points to a movie no longer in history, the second is an auteur
\* edge from the entry movie.
C2_Witness ==
  /\ lastOp.op = "navigateTo"
  /\ Len(store.edges) = 2
  /\ Len(store.history) = 2
  /\ store.edges[1].toId \notin HistoryIds(store.history)
  /\ store.edges[1].connectionType = "vibe"
  /\ store.edges[2].connectionType = "auteur"
  /\ store.edges[2].fromId = store.entryMovie.id

\* C3: a navigateTo call on a session with a current movie and cursor i, in a
\* forward direction, leaves history = the nodes 0..i followed by one new unsaved
\* node for the movie: its length is i + 2, the cursor is i + 1, the movie is
\* current, and the nodes that were after i are gone.
C3_BranchTruncation ==
  [][\A c \in Candidates, d \in ForwardDirections, t \in Times :
       ( /\ lastOp'.op = "navigateTo"
         /\ store.currentMovie # null
         /\ NavigateTo(c.movie, d, c.connectionReason, c.similarityScore, t) )
       => LET i == store.historyIndex
          IN /\ store'.history =
                  Append(SubSeq(store.history, 1, i + 1),
                         [movie |-> c.movie, timestamp |-> t, saved |-> FALSE])
             /\ Len(store'.history) = i + 2
             /\ store'.historyIndex = i + 1
             /\ store'.currentMovie = c.movie
  ]_vars

\* Two navigations were made, the second from the entry node after going back:
\* the node of the first one was discarded.
C3_Witness ==
  /\ lastOp.op = "navigateTo"
  /\ Len(store.edges) = 2
  /\ Len(store.history) = 2
  /\ store.historyIndex = 1
  /\ store.edges[1].toId # store.history[2].movie.id

\* C4: navigateTo leaves history, historyIndex, edges, currentMovie and the
\* prefetch cache unchanged whenever there is no current movie or the direction
\* is right.
C4_NavigateToNoOp ==
  [][\A c \in Candidates, d \in SwipeDirection, t \in Times :
       ( /\ lastOp'.op = "navigateTo"
         /\ store.currentMovie = null \/ d = "right"
         /\ NavigateTo(c.movie, d, c.connectionReason, c.similarityScore, t) )
       => /\ store'.history = store.history
          /\ store'.historyIndex = store.historyIndex
          /\ store'.edges = store.edges
          /\ store'.currentMovie = store.currentMovie
          /\ store'.prefetchedMoves = store.prefetchedMoves
  ]_vars

\* C5: goBack with the cursor past the first node returns true, moves the
\* cursor back by exactly one, makes the node now under it current, clears
\* isTransitioning and pendingDirection, and leaves the history sequence as it
\* was.
C5_GoBack ==
  [][( /\ lastOp'.op = "goBack"
       /\ store.historyIndex > 0
       /\ GoBack )
     => /\ lastOp'.ret = "true"
        /\ store'.historyIndex = store.historyIndex - 1
        /\ store'.currentMovie = store.history[store.historyIndex].movie
        /\ store'.isTransitioning = FALSE
        /\ store'.pendingDirection = noDirection
        /\ store'.history = store.history
  ]_vars

\* goBack returned true twice from the end of a three-node history with a saved
\* node: the cursor is on the entry node and the three nodes are still there.
C5_Witness ==
  /\ lastOp.op = "goBack"
  /\ lastOp.ret = "true"
  /\ store.historyIndex = 0
  /\ Len(store.history) = 3
  /\ store.history[3].saved
  /\ store.currentMovie = store.history[1].movie

\* C6: goBack with the cursor at or before the first node (an inactive session
\* included) returns false, and jumpToNode with an index outside the history
\* returns without effect; neither changes any field of the session.
C6_InvalidCommands ==
  [][/\ ( /\ lastOp'.op = "goBack"
          /\ store.historyIndex <= 0
          /\ GoBack )
        => /\ lastOp'.ret = "false"
           /\ store' = store
     /\ \A index \in JumpIndices :
          ( /\ lastOp'.op = "jumpToNode"
            /\ index < 0 \/ index >= Len(store.history)
            /\ JumpToNode(index) )
          => /\ lastOp'.ret = "undefined"
             /\ store' = store
  ]_vars

\* goBack returned false on an active session whose cursor is on the first of
\* several nodes while a transition was pending.
C6_Witness ==
  /\ lastOp.op = "goBack"
  /\ lastOp.ret = "false"
  /\ lastOp.wasActive
  /\ store.historyIndex = 0
  /\ Len(store.history) = 2
  /\ store.isTransitioning
  /\ store.pendingDirection = "left"

\* C7: jumpToNode with an index inside the history puts the cursor on it,
\* makes its movie current, closes the constellation and leaves
\* isTransitioning false and pendingDirection null.
C7_JumpToNode ==
  [][\A index \in JumpIndices :
       ( /\ lastOp'.op = "jumpToNode"
         /\ 0 <= index /\ index < Len(store.history)
         /\ JumpToNode(index) )
       => /\ store'.historyIndex = index
          /\ store'.currentMovie = store.history[index + 1].movie
          /\ store'.showConstellation = FALSE
          /\ store'.isTransitioning = FALSE
          /\ store'.pendingDirection = noDirection
  ]_vars

\* C8: goBack and jumpToNode leave edges and the history sequence exactly as
\* they were, wherever the cursor is.
C8_BackAndJumpFrame ==
  [][( /\ lastOp'.op \in {"goBack", "jumpToNode"}
       /\ GoBack \/ \E index \in JumpIndices : JumpToNode(index) )
     => /\ store'.edges = store.edges
        /\ store'.history = store.history
  ]_vars

\* jumpToNode moved the cursor to the entry node of a three-node history with
\* two edges.
C8_Witness ==
  /\ lastOp.op = "jumpToNode"
  /\ store.historyIndex = 0
  /\ Len(store.history) = 3
  /\ Len(store.edges) = 2
  /\ store.currentMovie = store.history[1].movie

\* C9: enterOrbit from any state leaves an active session whose entry and
\* current movie are the given movie, whose history is one unsaved node for it
\* under cursor 0, with no edges and an empty prefetch cache.
C9_EnterOrbit ==
  [][\A c \in Candidates, t \in Times :
       ( /\ lastOp'.op = "enterOrbit"
         /\ EnterOrbit(c.movie, t) )
       => /\ store'.isActive = TRUE
          /\ store'.entryMovie = c.movie
          /\ store'.currentMovie = c.movie
          /\ store'.history = <<[movie |-> c.movie, timestamp |-> t, saved |-> FALSE]>>
          /\ store'.historyIndex = 0
          /\ store'.edges = <<>>
          /\ store'.prefetchedMoves.vibe = null
          /\ store'.prefetchedMoves.aesthetic = null
          /\ store'.prefetchedMoves.auteur = null
  ]_vars

\* enterOrbit was called on a session that was already active and had a
\* pending direction.
C9_Witness ==
  /\ lastOp.op = "enterOrbit"
  /\ lastOp.wasActive
  /\ store.isActive
  /\ store.pendingDirection = "left"
  /\ Len(store.history) = 1

\* The value of a session that was constructed and never entered.
FreshSession ==
  [isActive |-> FALSE,
   entryMovie |-> null,
   currentMovie |-> null,
   history |-> <<>>,
   historyIndex |-> -1,
   edges |-> <<>>,
   isTransitioning |-> FALSE,
   showConstellation |-> FALSE,
   pendingDirection |-> noDirection,
   prefetchedMoves |-> [vibe |-> null, aesthetic |-> null, auteur |-> null]]

\* C10: exitOrbit and reset leave every field of the session at the value it
\* has in a freshly constructed session, and a reset of a session that is
\* already at that value changes nothing.
C10_ResetToFresh ==
  [][( /\ lastOp'.op \in {"exitOrbit", "reset"}
       /\ ExitOrbit \/ Reset )
     => /\ store' = FreshSession
        /\ store = FreshSession => store' = store
  ]_vars

\* exitOrbit was called on an active session.
C10_Witness ==
  /\ lastOp.op = "exitOrbit"
  /\ lastOp.wasActive
  /\ store.isActive = FALSE

\* C11: toggleSaved(movieId) inverts `saved` of every history node whose movie
\* has that id, wherever the node stands in the history, leaves the flag of
\* every other node alone, and changes nothing else: the history keeps its
\* length, order, movies and timestamps, and every other field of the store
\* keeps its value.
C11_ToggleSaved ==
  [][\A movieId \in MovieIds :
       ( /\ lastOp'.op = "toggleSaved"
         /\ ToggleSaved(movieId) )
       => /\ Len(store'.history) = Len(store.history)
          /\ \A i \in DOMAIN store.history :
                /\ store'.history[i].movie = store.history[i].movie
                /\ store'.history[i].timestamp = store.history[i].timestamp
                /\ store'.history[i].saved =
                     IF store.history[i].movie.id = movieId
                       THEN ~store.history[i].saved
                       ELSE store.history[i].saved
          /\ \A k \in DOMAIN store \ {"history"} : store'[k] = store[k]
  ]_vars

\* A movie stands at two positions of the history, one copy saved and the
\* other not, next to a node of another movie, and toggleSaved has just run.
C11_Witness ==
  /\ lastOp.op = "toggleSaved"
  /\ Len(store.history) = 3
  /\ store.history[1].movie = store.history[3].movie
  /\ store.history[2].movie # store.history[1].movie
  /\ store.history[1].saved
  /\ ~store.history[3].saved
  /\ store.history[2].saved
  /\ Len(store.edges) = 2

\* C12: right after a navigateTo that committed a move (the session had a
\* current movie), all three slots of prefetchedMoves are null, whatever they
\* held before.
C12_PrefetchCleared ==
  [][\A c \in Candidates, d \in SwipeDirection, t \in Times :
       ( /\ lastOp'.op = "navigateTo"
         /\ store.currentMovie # null
         /\ NavigateTo(c.movie, d, c.connectionReason, c.similarityScore, t) )
       => \A k \in PrefetchKeys : store'.prefetchedMoves[k] = null
  ]_vars

\* navigateTo has just committed the second move of an active session and the
\* cache is empty.
C12_Witness ==
  /\ lastOp.op = "navigateTo"
  /\ Len(store.edges) = 2
  /\ store.prefetchedMoves = emptyPrefetch
  /\ store.isActive

\* C20 (as stated): across every step the edge list never gets shorter, except
\* in a step of exitOrbit or reset.
C20_EdgesShrinkOnlyOnReset ==
  [][Len(store'.edges) < Len(store.edges) => (ExitOrbit \/ Reset)]_vars

\* C20 (amended): across every step the edge list never gets shorter, except in
\* a step of exitOrbit, reset or enterOrbit, each of which leaves it empty;
\* every other step keeps the edges it found as a prefix of the new list.
C20_EdgesShrinkOnlyOnNewSession ==
  [][\/ /\ lastOp'.op \in {"exitOrbit", "reset", "enterOrbit"}
        /\ store'.edges = <<>>
     \/ /\ Len(store'.edges) >= Len(store.edges)
        /\ SubSeq(store'.edges, 1, Len(store.edges)) = store.edges
  ]_vars

\* jumpToNode has just moved the cursor of a session with two edges back to the
\* entry node, and both edges are still there.
C20_Witness ==
  /\ lastOp.op = "jumpToNode"
  /\ store.isActive
  /\ store.historyIndex = 0
  /\ Len(store.history) = 3
  /\ Len(store.edges) = 2

\* C13: in every state each slot of the cache that is not null holds a
\* candidate the engine was asked for about the movie that is currentMovie in
\* that state.
C13_CacheForCurrentMovie ==
  \A k \in PrefetchKeys :
    store.prefetchedMoves[k] # null
      => /\ store.currentMovie # null
         /\ store.prefetchedMoves[k].requestedFor = store.currentMovie.id

\* C14: when a fan-out issued for a movie settles after the session has moved
\* away from that movie, its results are dropped: the cache is left as it was.
C14_StaleWriteDropped ==
  [][\A i \in DOMAIN fanouts :
       ( /\ lastOp'.op = "prefetchSettles"
         /\ store.currentMovie # fanouts[i].movie
         /\ \E moves \in prefetchOutcomes(fanouts[i]) : prefetchSettles(i, moves) )
       => store'.prefetchedMoves = store.prefetchedMoves
  ]_vars

\* C15: a fan-out is issued exactly on entry and on a navigateTo that changed
\* the session, and then for the movie that has just become current: initOrbit
\* and a commit whose navigateTo moved the session each add that one fan-out,
\* a commit whose navigateTo did nothing adds none, and no other step (goBack
\* and jumpToNode among them) adds any.
C15_FanoutOnEntryAndMove ==
  [][/\ lastOp'.op = "initOrbit"
        => fanouts' = Append(fanouts, prefetchNextMoves(store'.currentMovie))
     /\ (lastOp'.op = "commit" /\ Len(frames') < Len(frames))
        => IF store.currentMovie # null
             THEN fanouts' = Append(fanouts, prefetchNextMoves(store'.currentMovie))
             ELSE fanouts' = fanouts
     /\ lastOp'.op \notin {"initOrbit", "commit"}
        => Len(fanouts') <= Len(fanouts)
  ]_vars

\* C16: a forward swipe accepted while the session is idle commits exactly the
\* candidate its cache slot holds, with no call of the engine, when the slot
\* holds one, and otherwise makes exactly one getNextMovie call for the current
\* movie and that direction; and a cache entry is committed once only, so a
\* commit of a prefetched candidate that moves the session takes the candidate
\* the slot still holds.
C16_Consumption ==
  [][/\ ( /\ lastOp'.op = "handleSwipe"
          /\ lastOp'.ret \in {"prefetched", "awaiting"}
          /\ store.currentMovie # null
          /\ ~store.isTransitioning )
        => LET direction == store'.pendingDirection
               slot == store.prefetchedMoves[prefetchKey(direction)]
           IN IF slot # null
                THEN /\ fetches' = fetches
                     /\ frames' = Append(frames, [candidate |-> slot,
                                                  direction |-> direction,
                                                  source |-> "prefetched"])
                ELSE /\ frames' = frames
                     /\ fetches' = Append(fetches, [movie |-> store.currentMovie,
                                                    direction |-> direction])
     /\ ( /\ lastOp'.op = "commit"
          /\ lastOp'.ret = "prefetched"
          /\ Len(frames') < Len(frames)
          /\ store.currentMovie # null )
        => /\ Head(frames).candidate = store.prefetchedMoves[prefetchKey(Head(frames).direction)]
           /\ store'.currentMovie = Head(frames).candidate.movie
  ]_vars

SwipeFlags == {"isTransitioning", "pendingDirection"}

C18_NoCandidateAbsorbed ==
  [][/\ ( /\ lastOp'.op = "handleSwipe"
          /\ lastOp'.ret = "awaiting"
          /\ handleSwipe )
        => \A f \in DOMAIN store \ SwipeFlags : store'[f] = store[f]
     /\ \A i \in DOMAIN fetches :
          ( /\ lastOp'.op = "getNextMovieReturns"
            /\ lastOp'.ret = "null"
            /\ getNextMovieReturns(i, null) )
          => /\ store'.isTransitioning = FALSE
             /\ store'.pendingDirection = noDirection
             /\ \A f \in DOMAIN store \ SwipeFlags : store'[f] = store[f]
             /\ frames' = frames
             /\ fanouts' = fanouts
  ]_vars

\* The engine has just answered null to the second swipe of a session: the
\* session is idle at its second node with its one edge, and nothing of the
\* swipe is left under way.
C18_Witness ==
  /\ lastOp.op = "getNextMovieReturns"
  /\ lastOp.ret = "null"
  /\ store.isActive
  /\ ~store.isTransitioning
  /\ store.pendingDirection = noDirection
  /\ Len(store.history) = 2
  /\ store.historyIndex = 1
  /\ Len(store.edges) = 1
  /\ SwipesUnderWay = 0

\* C19: whenever isTransitioning is true the session comes back to
\* isTransitioning false, given that every timer fires, every engine call
\* returns and every scheduled callback runs, whatever the user does meanwhile.
C19_TransitionEnds == store.isTransitioning ~> ~store.isTransitioning

\* C27: when the commit callback of a swipe calls navigateTo on a session with
\* a current movie, the candidate it commits was requested from the engine for
\* that current movie, so the edge appended leaves the movie the candidate was
\* computed for.
C27_CandidateForCurrentMovie ==
  [][( /\ lastOp'.op = "commit"
       /\ Len(frames') < Len(frames)
       /\ store.currentMovie # null )
     => /\ Head(frames).candidate.requestedFor = store.currentMovie.id
        /\ store'.edges[Len(store'.edges)].fromId = Head(frames).candidate.requestedFor
  ]_vars

\* C28: in every state with isActive false the session has its initial value:
\* no history, no edges, no current movie, isTransitioning false,
\* pendingDirection null and the three cache slots null.
C28_InactiveIsInitial ==
  ~store.isActive
    => /\ store.history = <<>>
       /\ store.edges = <<>>
       /\ store.currentMovie = null
       /\ store.isTransitioning = FALSE
       /\ store.pendingDirection = noDirection
       /\ store.prefetchedMoves = emptyPrefetch

\* C29: while a forward swipe is in flight (isTransitioning true) a further
\* swipe in any direction is ignored: the handleSwipe it leads to changes
\* nothing of the session, awaits no engine call and schedules no commit.
C29_OneTransitionInFlight ==
  [][( /\ lastOp'.op = "handleSwipe"
       /\ Len(swipeTimers') < Len(swipeTimers)
       /\ store.isTransitioning )
     => /\ store' = store
        /\ fetches' = fetches
        /\ frames' = frames
  ]_vars

\* C30: in every active state the history starts at the entry movie and each
\* node after the first is reached from the node before it by an edge of the
\* edge list; so there are at least len(history) - 1 edges.
C30_HistoryIsPath ==
  store.isActive
    => /\ store.history[1].movie.id = store.entryMovie.id
       /\ \A i \in 2..Len(store.history) :
            \E e \in DOMAIN store.edges :
              /\ store.edges[e].fromId = store.history[i - 1].movie.id
              /\ store.edges[e].toId = store.history[i].movie.id
       /\ Len(store.edges) >= Len(store.history) - 1

\* An active session that went from the entry movie to another movie, back,
\* and forward again to a movie other than the entry: two nodes, two edges.
C30_Witness ==
  /\ store.isActive
  /\ lastOp.op = "navigateTo"
  /\ Len(store.history) = 2
  /\ Len(store.edges) = 2
  /\ store.history[2].movie # store.entryMovie
  /\ store.historyIndex = 1

\* The direction of a release as the swipe classification states it, with the
\* threshold 0.3 * min(viewportWidth, viewportHeight) taken in tenths of a pixel.
Classified(dx, dy, viewport) ==
  LET tenths == 3 * Min(viewport.innerWidth, viewport.innerHeight)
  IN IF Abs(dx) > Abs(dy)
       THEN IF 10 * dx < -tenths THEN "left"
            ELSE IF 10 * dx > tenths THEN "right"
            ELSE noDirection
       ELSE IF 10 * dy < -tenths THEN "up"
            ELSE IF 10 * dy > tenths THEN "down"
            ELSE noDirection

\* C21: a release is classified by its final offset and the viewport: on the
\* dominant axis (the vertical one when |dx| <= |dy|) the offset must be beyond
\* 0.3 * min(width, height), strictly, to give left/right/up/down; a release
\* classified as none schedules no swipe, and one classified as a direction
\* schedules a swipe in that direction unless a transition is under way.
C21_SwipeClassification ==
  [][( /\ lastOp'.op = "onDragEnd"
       /\ card.isDragging )
     => LET direction == Classified(lastOp'.offset.x, lastOp'.offset.y, lastOp'.window)
        IN IF direction = noDirection
             THEN /\ swipeTimers' = swipeTimers
                  /\ lastOp'.ret = "springBack"
             ELSE ~store.isTransitioning =>
                    /\ Len(swipeTimers') = Len(swipeTimers) + 1
                    /\ swipeTimers'[Len(swipeTimers')].direction = direction
                    /\ lastOp'.ret = direction
  ]_vars

\* A release exactly at the threshold of a 100 x 200 viewport, 30 px to the
\* right, has sprung back with no transition under way.
C21_Witness ==
  /\ lastOp.op = "onDragEnd"
  /\ lastOp.offset = [x |-> 30, y |-> 0]
  /\ lastOp.window = [innerWidth |-> 100, innerHeight |-> 200]
  /\ lastOp.ret = "springBack"
  /\ ~store.isTransitioning
  /\ swipeTimers = <<>>

\* A release whose two offsets are equal in magnitude and beyond the threshold,
\* with no transition under way.
TieReleased ==
  /\ lastOp'.op = "onDragEnd"
  /\ card.isDragging
  /\ ~store.isTransitioning
  /\ Abs(lastOp'.offset.x) = Abs(lastOp'.offset.y)
  /\ 10 * Abs(lastOp'.offset.x)
       > 3 * Min(lastOp'.window.innerWidth, lastOp'.window.innerHeight)

\* C22: the horizontal axis wins ties: a release with |dx| = |dy|, both beyond
\* the threshold, is a swipe left when dx < 0 and right when dx > 0.
C22_HorizontalWinsTies ==
  [][TieReleased
     => lastOp'.ret = IF lastOp'.offset.x < 0 THEN "left" ELSE "right"
  ]_vars

\* C22 as the code has it: the vertical axis wins ties: a release with
\* |dx| = |dy|, both beyond the threshold, is a swipe up when dy < 0 and down
\* when dy > 0, and schedules that swipe.
C22_VerticalWinsTies ==
  [][TieReleased
     => /\ lastOp'.ret = IF lastOp'.offset.y < 0 THEN "up" ELSE "down"
        /\ swipeTimers'[Len(swipeTimers')].direction = lastOp'.ret
  ]_vars

\* A release 40 px to the left and 40 px down in a 100 x 200 viewport has
\* scheduled a swipe down.
C22_Witness ==
  /\ lastOp.op = "onDragEnd"
  /\ lastOp.offset = [x |-> -40, y |-> 40]
  /\ lastOp.window = [innerWidth |-> 100, innerHeight |-> 200]
  /\ lastOp.ret = "down"
  /\ swipeTimers # <<>>
  /\ swipeTimers[Len(swipeTimers)].direction = "down"

\* The long-press timer of the drag under way fires.
TimerFires ==
  /\ lastOp'.op = "longPressTimer"
  /\ card.longPressTimer # null
  /\ card.longPressTimer.pending
  /\ ~card'.longPressTimer.pending

\* C23: LongPress is emitted exactly when the timer started at drag start
\* fires while the card is still dragged and has not been more than 20 px out
\* on an axis, and it toggles saved on the nodes of the current movie; no
\* other step emits it.
C23_LongPress ==
  [][/\ ( TimerFires /\ card.isDragging /\ ~card.exceeded )
          => /\ lastOp'.ret = "onLongPress"
             /\ Len(store'.history) = Len(store.history)
             /\ \A i \in DOMAIN store.history :
                  store'.history[i].saved =
                    IF store.history[i].movie.id = store.currentMovie.id
                      THEN ~store.history[i].saved
                      ELSE store.history[i].saved
     /\ lastOp'.ret = "onLongPress"
          => ( TimerFires /\ card.isDragging /\ ~card.exceeded )
  ]_vars

\* A finger lifts from the container.
TouchReleased ==
  /\ lastOp'.op = "handleTouchEnd"
  /\ Len(touches') < Len(touches)

\* The pinch a release ends, if it ends one: two fingers were down and were
\* being tracked, and s is their distance over the distance tracking began at.
PinchReleased == Len(touches) = 2 /\ pinchState.isPinching
ReleasedScale ==
  [num |-> getDistance(touches), den |-> pinchState.initialDistance]
ReleasedFar ==
  /\ PinchReleased
  /\ 4 * Abs(ReleasedScale.den - ReleasedScale.num) >= ReleasedScale.den

\* C25: a release emits PinchIn exactly when it ends a tracked two-finger
\* pinch whose scale s has s < 1 and |1 - s| >= 0.25, PinchOut exactly when
\* s > 1 and |1 - s| >= 0.25, and nothing otherwise.  (That a release emits
\* the event is asked only while the recogniser is enabled.)
C25_PinchClassification ==
  [][TouchReleased
     => /\ lastOp'.ret = "onPinchIn"
             => ( ReleasedFar /\ ReleasedScale.num < ReleasedScale.den )
        /\ lastOp'.ret = "onPinchOut"
             => ( ReleasedFar /\ ReleasedScale.num > ReleasedScale.den )
        /\ ( enabled(store) /\ ReleasedFar /\ ReleasedScale.num < ReleasedScale.den )
             => lastOp'.ret = "onPinchIn"
        /\ ( enabled(store) /\ ReleasedFar /\ ReleasedScale.num > ReleasedScale.den )
             => lastOp'.ret = "onPinchOut"
  ]_vars

\* C26: a gesture that stays under its threshold emits nothing and changes
\* nothing of the session: a drag released with a final offset that is not
\* classified as a direction schedules no swipe, and the release of a tracked
\* two-finger pinch whose scale s has |1 - s| < 0.25 calls neither onPinchIn
\* nor onPinchOut; either leaves the store, isTransitioning and
\* pendingDirection included, as it was.
C26_BelowThresholdNoEvent ==
  [][/\ ( /\ lastOp'.op = "onDragEnd"
          /\ card.isDragging
          /\ Classified(lastOp'.offset.x, lastOp'.offset.y, lastOp'.window) = noDirection )
          => /\ swipeTimers' = swipeTimers
             /\ store' = store
     /\ ( /\ TouchReleased
          /\ PinchReleased
          /\ ~ReleasedFar )
          => /\ lastOp'.ret \notin {"onPinchIn", "onPinchOut"}
             /\ store' = store
  ]_vars
====
